---- MODULE Spec2Model ----
(***************************************************************************)
(* Model of extensions/b2b-pricing/src/run.rs: the Shopify discount        *)
(* function `run`, the Configuration / PricingRule value types with their  *)
(* derived serde decoding, and the evaluation inputs of the unit tests.    *)
(*                                                                         *)
(* Money is in the smallest currency unit (cents).  A rule's discountValue *)
(* is the number the merchant wrote: percent for "percentage", currency    *)
(* units for "fixed".                                                      *)
(***************************************************************************)
EXTENDS Integers, Sequences, FiniteSets

VARIABLES input, result, raw, decoded, pc

vars == <<input, result, raw, decoded, pc>>

\* Longest pricingRules list and longest cart of an evaluation input, and the
\* longest pricingRules array of a raw configuration handed to the decoder.
MaxRules == 2
MaxLines == 1
MaxRawRules == 1

SeqsUpTo(S, n) == UNION {[1..k -> S] : k \in 0..n}

RuleIds == <<"wholesale-rule", "rule-b", "rule-c", "rule-d">>
LineIds == <<"gid://shopify/CartLine/1", "gid://shopify/CartLine/2",
             "gid://shopify/CartLine/3">>

----------------------------------------------------------------------------
(* The value types.                                                        *)

\* struct PricingRule, without its id (the id is given by the rule's place in
\* the list, see Configurations).  discount_type is a String: any literal.
RuleBodies ==
    { [customer_tags |-> ct, product_ids |-> <<>>, collection_ids |-> <<>>,
       discount_type |-> dt,
       discount_value |-> IF dt = "percentage" THEN 10 ELSE 50,
       priority |-> p, is_active |-> a] :
         ct \in {<<>>, <<"wholesale">>}, dt \in {"percentage", "fixed"},
         p \in {1, 2}, a \in BOOLEAN }

PricingRule(id, body) ==
    [id |-> id, customer_tags |-> body.customer_tags,
     product_ids |-> body.product_ids, collection_ids |-> body.collection_ids,
     discount_type |-> body.discount_type, discount_value |-> body.discount_value,
     priority |-> body.priority, is_active |-> body.is_active]

\* struct Configuration { pricing_rules: Vec<PricingRule> }
Configurations ==
    { [pricing_rules |-> [i \in DOMAIN bs |-> PricingRule(RuleIds[i], bs[i])]] :
         bs \in SeqsUpTo(RuleBodies, MaxRules) }

\* discountNode.metafield: null, or an object whose jsonValue is absent or a
\* serialized Configuration.
Metafields ==
    { [present |-> FALSE, hasJson |-> FALSE, jsonValue |-> [pricing_rules |-> <<>>]],
      [present |-> TRUE, hasJson |-> FALSE, jsonValue |-> [pricing_rules |-> <<>>]] }
    \cup { [present |-> TRUE, hasJson |-> TRUE, jsonValue |-> c] : c \in Configurations }

\* cart.buyerIdentity.customer: null, or an object with its tags.
Customers ==
    { [present |-> FALSE, tags |-> <<>>] }
    \cup { [present |-> TRUE, tags |-> t] : t \in {<<>>, <<"retail">>, <<"wholesale">>} }

\* The unit prices a cart line can have: 10.00 and 20.00.
UnitPrices == {1000, 2000}

Quantities == {1, 2}

\* One cart line without its id: quantity and merchandise (a product variant of
\* the test's product, in no collection), and the line's unit price.
LineBodies ==
    { [quantity |-> q, product |-> "gid://shopify/Product/1",
       inAnyCollection |-> <<>>, unitPrice |-> u] :
         q \in Quantities, u \in UnitPrices }

CartLine(id, body) ==
    [id |-> id, quantity |-> body.quantity, product |-> body.product,
     inAnyCollection |-> body.inAnyCollection, unitPrice |-> body.unitPrice]

Carts ==
    { [i \in DOMAIN bs |-> CartLine(LineIds[i], bs[i])] :
         bs \in SeqsUpTo(LineBodies, MaxLines) }

\* schema::run::Input
Input(m, c, l) == [metafield |-> m, customer |-> c, lines |-> l]

----------------------------------------------------------------------------
(* The vocabulary of the claims: the matcher, the resolver and the         *)
(* calculator of the design document (sections 4.2 to 4.4), with switches  *)
(* for the two gates.  run.rs holds none of it and run does not use it; the *)
(* claims are stated with it and the faulty variants of run are built from  *)
(* it.                                                                     *)

Range(s) == {s[i] : i \in DOMAIN s}

RulesOf(_input) ==
    IF _input.metafield.present /\ _input.metafield.hasJson
    THEN _input.metafield.jsonValue.pricing_rules
    ELSE <<>>

TagsOf(_input) == IF _input.customer.present THEN Range(_input.customer.tags) ELSE {}

TagAxis(rule, tags) ==
    rule.customer_tags = <<>> \/ Range(rule.customer_tags) \cap tags # {}

ProductAxis(rule, line) ==
    rule.product_ids = <<>> \/ line.product \in Range(rule.product_ids)

CollectionAxis(rule, line) ==
    rule.collection_ids = <<>>
    \/ Range(rule.collection_ids) \cap Range(line.inAnyCollection) # {}

Matches(rule, tags, line, useTags, useActive) ==
    /\ useActive => rule.is_active
    /\ useTags => TagAxis(rule, tags)
    /\ ProductAxis(rule, line)
    /\ CollectionAxis(rule, line)

Extended(line) == line.unitPrice * line.quantity

Min(a, b) == IF a <= b THEN a ELSE b
Max(a, b) == IF a >= b THEN a ELSE b
Clamp(x, lo, hi) == Max(lo, Min(x, hi))

ComputeAmount(rule, line) ==
    LET full == IF rule.discount_type = "percentage"
                THEN (Extended(line) * rule.discount_value) \div 100
                ELSE rule.discount_value * 100 * line.quantity
    IN Clamp(full, 0, Extended(line))

\* The rules matching a line, as indices, and the one that wins: the smallest
\* priority, the earlier rule on a tie.
Matching(rules, tags, line, useTags, useActive) ==
    {i \in DOMAIN rules : Matches(rules[i], tags, line, useTags, useActive)}

Winner(rules, m) ==
    CHOOSE i \in m : \A j \in m :
        \/ rules[i].priority < rules[j].priority
        \/ rules[i].priority = rules[j].priority /\ i <= j

NoEntry == [line |-> "", rule |-> "", amount |-> 0]

Engine(_input, useTags, useActive) ==
    LET rules == RulesOf(_input)
        tags == TagsOf(_input)
        lines == _input.lines
        entry(k) ==
            LET m == Matching(rules, tags, lines[k], useTags, useActive)
            IN IF m = {} THEN NoEntry
               ELSE [line |-> lines[k].id, rule |-> rules[Winner(rules, m)].id,
                     amount |-> ComputeAmount(rules[Winner(rules, m)], lines[k])]
        all == [k \in DOMAIN lines |-> entry(k)]
    IN [ok |-> TRUE, discounts |-> SelectSeq(all, LAMBDA e : e # NoEntry),
        discount_application_strategy |-> "First"]

Err == [ok |-> FALSE, discounts |-> <<>>, discount_application_strategy |-> "First"]

\* Faulty variants of run: one that fails on a missing configuration, one that
\* applies the rules, one that skips the customer-tag gate, one that skips the
\* isActive gate.
run_requireMetafield(_input) ==
    IF _input.metafield.present /\ _input.metafield.hasJson
    THEN Engine(_input, TRUE, TRUE)
    ELSE Err

run_applyRules(_input) == Engine(_input, TRUE, TRUE)

run_ignoreTags(_input) == Engine(_input, FALSE, TRUE)

run_ignoreActive(_input) == Engine(_input, TRUE, FALSE)

----------------------------------------------------------------------------
(* run                                                                     *)

\* Result<schema::FunctionRunResult>
Ok(r) == [ok |-> TRUE, discounts |-> r.discounts,
          discount_application_strategy |-> r.discount_application_strategy]
no_discount == [discounts |-> <<>>, discount_application_strategy |-> "First"]

run(_input) == Ok(no_discount)

----------------------------------------------------------------------------
(* Decoding a configuration: the Deserialize that serde derives for        *)
(* Configuration and PricingRule.  A JSON value is a kind with its payload; *)
(* a key the object does not hold is Absent.                               *)

JStr(x) == [kind |-> "string", s |-> x, n |-> 0, b |-> FALSE, a |-> <<>>]
JNum(x) == [kind |-> "number", s |-> "", n |-> x, b |-> FALSE, a |-> <<>>]
JBool(x) == [kind |-> "bool", s |-> "", n |-> 0, b |-> x, a |-> <<>>]
JArr(x) == [kind |-> "array", s |-> "", n |-> 0, b |-> FALSE, a |-> x]
Absent == [kind |-> "absent", s |-> "", n |-> 0, b |-> FALSE, a |-> <<>>]

\* The JSON objects offered as rules, under the camelCase keys of
\* #[serde(rename_all = "camelCase")].
RawRules ==
    { [id |-> JStr("wholesale-rule"), customerTags |-> JArr(<<"wholesale">>),
       productIds |-> JArr(<<>>), collectionIds |-> JArr(<<>>),
       discountType |-> dt, discountValue |-> dv, priority |-> p, isActive |-> a] :
         dt \in {Absent, JStr("percentage"), JStr("fixed"), JStr("bogus"), JNum(1)},
         dv \in {Absent, JNum(-5), JNum(10), JNum(150), JStr("10")},
         p \in {Absent, JNum(1), JStr("1")},
         a \in {Absent, JBool(TRUE), JBool(FALSE)} }

\* The JSON objects offered as configurations: pricingRules absent, or an array.
RawConfigurations ==
    { [hasRules |-> FALSE, pricingRules |-> <<>>] }
    \cup { [hasRules |-> TRUE, pricingRules |-> rs] : rs \in SeqsUpTo(RawRules, MaxRawRules) }

\* Every field of PricingRule is required (no #[serde(default)], no Option) and
\* must have its type: String, Vec<String>, f64 (any number), i32, bool.  The
\* String of discount_type and the f64 of discount_value are not looked into.
Decodable(r) ==
    /\ r.id.kind = "string"
    /\ r.customerTags.kind = "array"
    /\ r.productIds.kind = "array"
    /\ r.collectionIds.kind = "array"
    /\ r.discountType.kind = "string"
    /\ r.discountValue.kind = "number"
    /\ r.priority.kind = "number"
    /\ r.isActive.kind = "bool"

Deserialize_PricingRule(r) ==
    [id |-> r.id.s, customer_tags |-> r.customerTags.a,
     product_ids |-> r.productIds.a, collection_ids |-> r.collectionIds.a,
     discount_type |-> r.discountType.s, discount_value |-> r.discountValue.n,
     priority |-> r.priority.n, is_active |-> r.isActive.b]

DecodeError == [ok |-> FALSE, pricing_rules |-> <<>>]

\* serde_json::from_value::<Configuration>: pricingRules is required, and one
\* rule that does not decode fails the whole configuration.
Deserialize_Configuration(c) ==
    IF c.hasRules /\ \A i \in DOMAIN c.pricingRules : Decodable(c.pricingRules[i])
    THEN [ok |-> TRUE,
          pricing_rules |-> [i \in DOMAIN c.pricingRules |->
                                 Deserialize_PricingRule(c.pricingRules[i])]]
    ELSE DecodeError

None == [ok |-> FALSE, discounts |-> <<>>, discount_application_strategy |-> "None"]
NoRaw == [hasRules |-> FALSE, pricingRules |-> <<>>]
NotDecoded == [ok |-> FALSE, pricing_rules |-> <<"not decoded">>]
NoInput == [metafield |-> [present |-> FALSE, hasJson |-> FALSE,
                           jsonValue |-> [pricing_rules |-> <<>>]],
            customer |-> [present |-> FALSE, tags |-> <<>>],
            lines |-> <<>>]

\* The host hands one evaluation input to the function.
Init ==
    /\ \E m \in Metafields, c \in Customers, l \in Carts : input = Input(m, c, l)
    /\ result = None
    /\ raw = NoRaw
    /\ decoded = NotDecoded
    /\ pc = "ready"

\* One call of run on the input.
Run ==
    /\ pc = "ready"
    /\ result' = run(input)
    /\ pc' = "done"
    /\ UNCHANGED <<input, raw, decoded>>

Next == Run

Spec == Init /\ [][Next]_vars

\* A configuration blob is handed to the decoder.
InitDecode ==
    /\ raw \in RawConfigurations
    /\ decoded = NotDecoded
    /\ input = NoInput
    /\ result = None
    /\ pc = "raw"

\* One decoding of the blob into a Configuration.
Decode ==
    /\ pc = "raw"
    /\ decoded' = Deserialize_Configuration(raw)
    /\ pc' = "decoded"
    /\ UNCHANGED <<input, result, raw>>

NextDecode == Decode

SpecDecode == InitDecode /\ [][NextDecode]_vars

----------------------------------------------------------------------------
(* The evaluation inputs of the unit tests.  The tests give a line no      *)
(* price; the line of the third test is taken at 10.00.                    *)

NullMetafield == [present |-> FALSE, hasJson |-> FALSE, jsonValue |-> [pricing_rules |-> <<>>]]

WholesaleRule ==
    [id |-> "wholesale-rule", customer_tags |-> <<"wholesale">>,
     product_ids |-> <<>>, collection_ids |-> <<>>,
     discount_type |-> "percentage", discount_value |-> 10,
     priority |-> 1, is_active |-> TRUE]

ConfigMetafield(rules) ==
    [present |-> TRUE, hasJson |-> TRUE, jsonValue |-> [pricing_rules |-> rules]]

test_no_metafield_input ==
    [metafield |-> NullMetafield,
     customer |-> [present |-> TRUE, tags |-> <<>>],
     lines |-> <<>>]

test_no_customer_tags_input ==
    [metafield |-> ConfigMetafield(<<WholesaleRule>>),
     customer |-> [present |-> TRUE, tags |-> <<>>],
     lines |-> <<>>]

test_wholesale_input ==
    [metafield |-> ConfigMetafield(<<WholesaleRule>>),
     customer |-> [present |-> TRUE, tags |-> <<"wholesale">>],
     lines |-> << [id |-> "gid://shopify/CartLine/1", quantity |-> 1,
                   product |-> "gid://shopify/Product/1",
                   inAnyCollection |-> <<>>, unitPrice |-> 1000] >>]

----------------------------------------------------------------------------
(* Claims about run.                                                       *)

Done == pc = "done"

EmptyConfig(_input) ==
    \/ ~_input.metafield.present
    \/ ~_input.metafield.hasJson
    \/ _input.metafield.jsonValue.pricing_rules = <<>>

EntriesOfRule(res, id) == {k \in DOMAIN res.discounts : res.discounts[k].rule = id}
EntriesOfLine(res, id) == {k \in DOMAIN res.discounts : res.discounts[k].line = id}

\* C1: whenever the configuration is empty or absent (metafield null, jsonValue
\* absent, or pricingRules empty), whatever the customer and the cart, run
\* returns Ok with an empty discounts list and strategy First.
C1_EmptyConfigNoDiscount ==
    (Done /\ EmptyConfig(input)) =>
        /\ result.ok
        /\ result.discounts = <<>>
        /\ result.discount_application_strategy = "First"

\* C1 witness: run has returned on an input with a null metafield, a tagged
\* customer and a non-empty cart.
C1_Witness ==
    /\ Done
    /\ ~input.metafield.present
    /\ input.customer.tags = <<"wholesale">>
    /\ Len(input.lines) >= 1
    /\ result = Ok(no_discount)

\* The calibration scenario: a customer tagged "wholesale", one active rule on
\* that tag (no product or collection restriction, percentage 10, priority 1)
\* and a cart of one line of quantity 1.
WholesaleScenario(_input) ==
    /\ "wholesale" \in TagsOf(_input)
    /\ Len(RulesOf(_input)) = 1
    /\ LET r == RulesOf(_input)[1]
       IN /\ r.is_active /\ r.customer_tags = <<"wholesale">>
          /\ r.product_ids = <<>> /\ r.collection_ids = <<>>
          /\ r.discount_type = "percentage" /\ r.discount_value = 10
          /\ r.priority = 1
    /\ Len(_input.lines) = 1
    /\ _input.lines[1].quantity = 1

\* C2: in the calibration scenario run returns exactly one discount entry, for
\* the cart's line, of 10% of the line's extended price, with strategy First.
C2_WholesaleDiscountApplied ==
    (Done /\ WholesaleScenario(input)) =>
        /\ result.ok
        /\ Len(result.discounts) = 1
        /\ result.discounts[1].line = input.lines[1].id
        /\ result.discounts[1].amount = (Extended(input.lines[1]) * 10) \div 100
        /\ result.discount_application_strategy = "First"

\* C3: for every evaluation input run returns Ok with an empty discounts list
\* and strategy First; All is never emitted.
C3_AlwaysFirstEmpty ==
    Done =>
        /\ result.ok
        /\ result.discounts = <<>>
        /\ result.discount_application_strategy = "First"
        /\ result.discount_application_strategy # "All"

\* C3 witness: run has returned on the input of test_wholesale_discount_applied,
\* where an active rule matches the customer and the line.
C3_Witness ==
    /\ Done
    /\ input = test_wholesale_input
    /\ Matching(RulesOf(input), TagsOf(input), input.lines[1], TRUE, TRUE) = {1}
    /\ result.discounts = <<>>

\* C4: a rule with a non-empty customerTags that has no tag in common with the
\* customer's tags (the empty tag set and an absent customer included) produces
\* no discount entry of the result, for any cart.
C4_TagGateNegative ==
    Done =>
        \A i \in DOMAIN RulesOf(input) :
            LET r == RulesOf(input)[i]
            IN (r.customer_tags # <<>> /\ Range(r.customer_tags) \cap TagsOf(input) = {})
                   => EntriesOfRule(result, r.id) = {}

\* C4 witness: run has returned on a cart with a line and a single active rule
\* on "wholesale", for a customer tagged only "retail".
C4_Witness ==
    /\ Done
    /\ input.customer.present /\ input.customer.tags = <<"retail">>
    /\ Len(RulesOf(input)) = 1
    /\ RulesOf(input)[1].customer_tags = <<"wholesale">>
    /\ RulesOf(input)[1].is_active
    /\ Len(input.lines) >= 1
    /\ EntriesOfRule(result, RulesOf(input)[1].id) = {}

\* Two active rules, of priorities 1 and 2, that both match line k.
TwoRulesMatch(_input, k) ==
    /\ Len(RulesOf(_input)) = 2
    /\ {RulesOf(_input)[1].priority, RulesOf(_input)[2].priority} = {1, 2}
    /\ k \in DOMAIN _input.lines
    /\ Matching(RulesOf(_input), TagsOf(_input), _input.lines[k], TRUE, TRUE) = {1, 2}

\* C6: when two active rules of priorities 1 and 2 both match a cart line, the
\* result holds exactly one discount entry for that line, the priority-1 rule's.
C6_PriorityResolution ==
    Done =>
        \A k \in DOMAIN input.lines :
            TwoRulesMatch(input, k) =>
                /\ Cardinality(EntriesOfLine(result, input.lines[k].id)) = 1
                /\ \A e \in EntriesOfLine(result, input.lines[k].id) :
                       \E i \in {1, 2} :
                           /\ RulesOf(input)[i].priority = 1
                           /\ result.discounts[e].rule = RulesOf(input)[i].id

\* A single active percentage rule that matches line k.
PercentageApplied(_input, k) ==
    /\ Len(RulesOf(_input)) = 1
    /\ RulesOf(_input)[1].discount_type = "percentage"
    /\ k \in DOMAIN _input.lines
    /\ Matching(RulesOf(_input), TagsOf(_input), _input.lines[k], TRUE, TRUE) = {1}

\* C7: a percentage rule applied to a line emits the amount
\* unitPrice * quantity * discountValue / 100 clamped to [0, unitPrice * quantity]
\* (discountValue 10 on unit price 20.00, quantity 2: amount 4.00).
C7_PercentageAmount ==
    Done =>
        \A k \in DOMAIN input.lines :
            PercentageApplied(input, k) =>
                \E e \in EntriesOfLine(result, input.lines[k].id) :
                    result.discounts[e].amount =
                        Clamp((Extended(input.lines[k]) * RulesOf(input)[1].discount_value) \div 100,
                              0, Extended(input.lines[k]))

\* A single active fixed rule that matches line k.
FixedApplied(_input, k) ==
    /\ Len(RulesOf(_input)) = 1
    /\ RulesOf(_input)[1].discount_type = "fixed"
    /\ k \in DOMAIN _input.lines
    /\ Matching(RulesOf(_input), TagsOf(_input), _input.lines[k], TRUE, TRUE) = {1}

LineOf(_input, id) == CHOOSE l \in Range(_input.lines) : l.id = id

\* C8: every discount entry of a result has an amount between 0 and its line's
\* extended price, and a fixed rule of 50 on a line of unit price 10.00 and
\* quantity 1 yields the amount 10.00.
C8_MonetaryInvariant ==
    Done =>
        /\ \A e \in DOMAIN result.discounts :
               /\ result.discounts[e].amount >= 0
               /\ result.discounts[e].amount
                      <= Extended(LineOf(input, result.discounts[e].line))
        /\ \A k \in DOMAIN input.lines :
               (FixedApplied(input, k) /\ RulesOf(input)[1].discount_value = 50
                    /\ input.lines[k].unitPrice = 1000 /\ input.lines[k].quantity = 1)
                   => \E e \in EntriesOfLine(result, input.lines[k].id) :
                          result.discounts[e].amount = 1000

\* C10: a rule with isActive = false produces no discount entry of the result,
\* for any customer and cart, even when its three axes all pass.
C10_InactiveNeverMatched ==
    Done =>
        \A i \in DOMAIN RulesOf(input) :
            ~RulesOf(input)[i].is_active
                => EntriesOfRule(result, RulesOf(input)[i].id) = {}

\* C10 witness: run has returned on a cart with a line and a single inactive
\* rule whose customer-tag, product and collection axes all pass on that line.
C10_Witness ==
    /\ Done
    /\ Len(RulesOf(input)) = 1
    /\ ~RulesOf(input)[1].is_active
    /\ RulesOf(input)[1].customer_tags = <<"wholesale">>
    /\ Len(input.lines) >= 1
    /\ Matching(RulesOf(input), TagsOf(input), input.lines[1], TRUE, FALSE) = {1}
    /\ EntriesOfRule(result, RulesOf(input)[1].id) = {}

----------------------------------------------------------------------------
(* Claims about decoding.                                                  *)

ValidRule(r) ==
    /\ r.discount_type \in {"percentage", "fixed"}
    /\ r.discount_value >= 0
    /\ r.discount_type = "percentage" => r.discount_value <= 100

\* C9: decoding fails for every rule whose discountType is neither "percentage"
\* nor "fixed", whose discountValue is negative, or whose discountValue exceeds
\* 100 for a percentage rule: no such rule is ever a decoded PricingRule.
C9_DecodeRejectsInvalid ==
    (pc = "decoded" /\ decoded.ok) =>
        \A i \in DOMAIN decoded.pricing_rules : ValidRule(decoded.pricing_rules[i])

====
